---- MODULE Spec2Model ----
(***************************************************************************)
(* Model of the SmartMacro AI bot: the photo handler (src/src/bot.py),    *)
(* the vision-service adapter (src/src/openai_client.py), the pydantic    *)
(* models (src/src/models.py) and the SQLite history store                *)
(* (src/src/database.py).                                                  *)
(*                                                                         *)
(* Every JSON value, Python value and SQLite cell is a record              *)
(* [t, s, n]: t is the type tag, s the text of a string, n the number.     *)
(* Numbers are integers; every integer of the model is exactly             *)
(* representable as a Python float, so float(n) keeps the number.          *)
(***************************************************************************)
EXTENDS Integers, Sequences, FiniteSets, TLC

VARIABLES
    pc,        \* task -> position of the handle_photo coroutine
    user,      \* task -> message.from_user.id of the message being handled
    content,   \* task -> response.choices[0].message.content received
    result,    \* task -> value returned by analyze_food_image
    requests,  \* task -> number of chat.completions.create calls issued
    replies,   \* task -> sequence of messages delivered by message.answer
    log,       \* task -> set of log records written on behalf of the task
    appends,   \* task -> number of INSERT statements executed for the task
    inserted,  \* task -> row written by the task's INSERT, NoRow when there is
               \* none or it was rolled back
    raised,    \* task -> str(e) of the exception the outbound call raised
    writer,    \* task holding SQLite's write lock, 0 when it is free
    store,     \* committed rows of nutrition_history, in rowid order
    seq,       \* sqlite_sequence: largest rowid ever committed
    now,       \* UTC clock, in hours since the epoch
    qres,      \* value returned by the last call of a store method
    cmd,       \* the last command handled: its arguments, log and answers
    tz         \* offset of the server's local time from UTC, in hours

vars == <<pc, user, content, result, requests, replies, log, appends,
          inserted, raised, writer, store, seq, now, qres, cmd, tz>>

(***************************************************************************)
(* Bounds                                                                  *)
(***************************************************************************)
NumTasks == 2
MaxRows == 2
StartHour == 22
MaxClock == 25

Tasks == 1..NumTasks
Users == {1, 2}

(***************************************************************************)
(* Values                                                                  *)
(***************************************************************************)
V(t, s, n) == [t |-> t, s |-> s, n |-> n]
Str(s) == V("str", s, 0)
Num(n) == V("num", "", n)
Null == V("null", "", 0)
NaN == V("nan", "", 0)
Arr == V("arr", "", 0)
Absent == V("absent", "", 0)

FloatFields == {"calories", "protein_g", "carbs_g", "fats_g", "fiber_g"}
StrFields == {"food_name", "serving_size", "confidence"}
Required == FloatFields \cup StrFields
Keys == Required \cup {"error", "notes"}

EmptyObj == [k \in {} |-> Null]

\* A JSON object: the keys of a full assignment that are not Absent.
Obj(f) == [k \in {x \in DOMAIN f : f[x] # Absent} |-> f[k]]

\* The raw content of a service response.
\*   none: content is None;  text: not JSON;  null, num, str, arr: JSON that
\*   is not an object (s: the text of a JSON string, a: the items of a JSON
\*   array of strings);  obj: a JSON object, o.
Content(t, s, o, a) == [t |-> t, s |-> s, o |-> o, a |-> a]
NoContent == Content("unset", "", EmptyObj, <<>>)
NoneC == Content("none", "", EmptyObj, <<>>)
TextC(s) == Content("text", s, EmptyObj, <<>>)
NullC == Content("null", "", EmptyObj, <<>>)
NumC == Content("num", "", EmptyObj, <<>>)
StrC(s) == Content("str", s, EmptyObj, <<>>)
ArrC(a) == Content("arr", "", EmptyObj, a)
ObjC(o) == Content("obj", "", o, <<>>)

(***************************************************************************)
(* models.py, openai_client.py                                             *)
(***************************************************************************)
ParseFailedText == "Failed to parse nutrition data. Please try again."
InvalidFormatText == "Invalid nutrition data format. Please try again."
FailedPrefix == "Failed to analyze image: "

NoInfo == [k \in Required |-> Null]
NoResult == [tag |-> "none", error |-> <<>>, info |-> NoInfo]

\* ErrorResponse(error=...): the message is the sequence of its pieces.
ErrorResponse(msg) == [tag |-> "error", error |-> msg, info |-> NoInfo]

\* The outer handler of analyze_food_image: except Exception as e.
ApiError(detail) == ErrorResponse(<<FailedPrefix, detail>>)

\* float(v) for a JSON number.
PyFloat(v) == IF v.t = "num" THEN Num(v.n) ELSE v

\* One field of NutritionInfo accepts the value: a float field takes a JSON
\* number (NaN included), a str field takes a JSON string.
FieldOK(k, o) ==
    /\ k \in DOMAIN o
    /\ IF k \in FloatFields THEN o[k].t \in {"num", "nan"} ELSE o[k].t = "str"

ModelValidates(o) == \A k \in Required : FieldOK(k, o)

\* NutritionInfo(**data): the declared fields, keys not declared are dropped.
NutritionInfo(o) ==
    [k \in Required |-> IF k \in FloatFields THEN PyFloat(o[k]) ELSE o[k]]

InfoResult(info) == [tag |-> "info", error |-> <<>>, info |-> info]

\* "error" in s, for the strings of the model.
HasErrorSubstr(s) == s \in {"error", "an error occurred"}

\* "error" in data, as Python evaluates it for a dict, a list and a str;
\* "raise" where the operand is not iterable.
ErrorInData(c) ==
    CASE c.t = "obj" -> IF "error" \in DOMAIN c.o THEN "yes" ELSE "no"
      [] c.t = "arr" -> IF \E i \in 1..Len(c.a) : c.a[i] = "error"
                        THEN "yes" ELSE "no"
      [] c.t = "str" -> IF HasErrorSubstr(c.s) THEN "yes" ELSE "no"
      [] OTHER -> "raise"

\* The error branch: ErrorResponse(error=data["error"]).
ErrorBranch(c) ==
    IF c.t # "obj" THEN ApiError("TypeError: indices must be integers")
    ELSE IF c.o["error"].t = "str" THEN ErrorResponse(<<c.o["error"].s>>)
    ELSE ApiError("ValidationError: 1 validation error for ErrorResponse")

\* The validation branch: NutritionInfo(**data).
ValidateBranch(c) ==
    IF c.t # "obj" THEN ApiError("TypeError: argument after ** must be a mapping")
    ELSE IF ModelValidates(c.o) THEN InfoResult(NutritionInfo(c.o))
    ELSE ErrorResponse(<<InvalidFormatText>>)

\* analyze_food_image once the service has answered with content c.
AnalyzeResponse(c) ==
    CASE c.t = "none" -> ApiError("TypeError: the JSON object must be str")
      [] c.t = "text" -> ErrorResponse(<<ParseFailedText>>)
      [] OTHER ->
           CASE ErrorInData(c) = "raise" ->
                    ApiError("TypeError: argument is not iterable")
             [] ErrorInData(c) = "yes" -> ErrorBranch(c)
             [] OTHER -> ValidateBranch(c)

\* Failures of the outbound call: str(e) of the exception raised.
ServiceErrors == {"Connection error.", "Incorrect API key provided",
                  "You exceeded your current quota", "Request timed out."}

\* The failures of the concurrent handler specification.
HandlerErrors == {"Connection error.", "Request timed out."}

(***************************************************************************)
(* Inputs                                                                  *)
(***************************************************************************)
GoodFields == [food_name |-> Str("Apple"), calories |-> Num(250),
               protein_g |-> Num(12), carbs_g |-> Num(30), fats_g |-> Num(9),
               fiber_g |-> Num(4), serving_size |-> Str("1 plate"),
               confidence |-> Str("high"), error |-> Absent, notes |-> Absent]

\* The service outputs of the concurrent handler specification.
HandlerContents ==
    { TextC("Sorry, I cannot help"),
      ArrC(<<"Apple">>),
      ObjC(Obj(GoodFields)),
      ObjC(Obj([GoodFields EXCEPT !.calories = NaN])),
      ObjC(Obj([GoodFields EXCEPT !.fiber_g = Absent])),
      ObjC(Obj([k \in Keys |-> IF k = "error" THEN Str("This is a cat")
                               ELSE Absent])) }

\* The service outputs of the parsing specification.
ParseObjects ==
    { Obj(f) : f \in
        [food_name : {Str("Apple"), Str(""), Absent},
         calories : {Num(250), Num(0), Num(-5), Null, NaN, Str("lots"), Absent},
         protein_g : {Num(12), Num(-1)},
         carbs_g : {Num(30), Null},
         fats_g : {Num(9), Absent},
         fiber_g : {Num(4), Num(-2)},
         serving_size : {Str("1 plate"), Str(""), Absent},
         confidence : {Str("high"), Str("bogus"), Absent},
         error : {Absent, Str("This is a cat"), Null},
         notes : {Absent, Str("homemade")}] }

ParseContents ==
    { NoneC, TextC("Sorry, I cannot help"), TextC(""), NullC, NumC,
      StrC("Apple"), StrC("an error occurred"),
      ArrC(<<>>), ArrC(<<"Apple">>), ArrC(<<"error">>) }
    \cup { ObjC(o) : o \in ParseObjects }

(***************************************************************************)
(* database.py: the table and save_analysis                                *)
(***************************************************************************)
\* message.from_user of each user: username and first_name, "" when unset.
Profiles == [u \in Users |->
               IF u = 1 THEN [username |-> "alice", first_name |-> "Alice"]
               ELSE [username |-> "", first_name |-> ""]]

\* message.from_user.username or message.from_user.first_name or "Unknown"
UserName(u) ==
    IF Profiles[u].username # "" THEN Profiles[u].username
    ELSE IF Profiles[u].first_name # "" THEN Profiles[u].first_name
    ELSE "Unknown"

\* photo.file_id of the photo user u sends.
PhotoOf(u) == u

\* sqlite3 binds a float NaN as NULL.
Bind(v) == IF v.t = "nan" THEN Null ELSE v

Row(id, u, name, info, at, photo) ==
    [id |-> id, user_id |-> u, username |-> name,
     food_name |-> Bind(info["food_name"]),
     calories |-> Bind(info["calories"]),
     protein_g |-> Bind(info["protein_g"]),
     carbs_g |-> Bind(info["carbs_g"]),
     fats_g |-> Bind(info["fats_g"]),
     fiber_g |-> Bind(info["fiber_g"]),
     serving_size |-> Bind(info["serving_size"]),
     confidence |-> Bind(info["confidence"]),
     analyzed_at |-> at, photo_file_id |-> photo]

NoRow == Row(0, 0, "", NoInfo, 0, 0)

\* The NOT NULL constraints of nutrition_history.
NotNullOK(r) ==
    /\ r.food_name.t # "null"
    /\ r.calories.t # "null"
    /\ r.protein_g.t # "null"
    /\ r.carbs_g.t # "null"
    /\ r.fats_g.t # "null"
    /\ r.fiber_g.t # "null"
    /\ r.serving_size.t # "null"
    /\ r.confidence.t # "null"

\* Variant: the rowid is not advanced past the first row.
NewRowId_NoIncrement == IF seq = 0 THEN 1 ELSE seq

\* id INTEGER PRIMARY KEY AUTOINCREMENT: one more than the largest rowid
\* the table has ever held.
NewRowId == seq + 1

\* The row the INSERT of save_analysis writes: id and analyzed_at (DEFAULT
\* CURRENT_TIMESTAMP) are assigned by the store.
InsertedRow(u, name, info, photo) == Row(NewRowId, u, name, info, now, photo)

\* Variant: INSERT OR REPLACE keyed by user and food name.
InsertRow_Replace(st, r) ==
    IF \E i \in 1..Len(st) : st[i].user_id = r.user_id /\ st[i].food_name = r.food_name
    THEN [i \in 1..Len(st) |->
            IF st[i].user_id = r.user_id /\ st[i].food_name = r.food_name
            THEN r ELSE st[i]]
    ELSE Append(st, r)

\* The table after the commit of an inserted row.
InsertRow(st, r) == Append(st, r)

(***************************************************************************)
(* database.py: the queries                                                *)
(***************************************************************************)
HoursPerDay == 24
DefaultLimit == 20

\* DATE(analyzed_at), strftime('%Y-%m-%d'): the day number of a timestamp.
DateOf(ts) == ts \div HoursPerDay

\* datetime.weekday(): Monday is 0; day 0 of the epoch was a Thursday.
Weekday(d) == (d + 3) % 7

\* The value a query returns: ok is FALSE for None.
QRes(op, u, ok, val) == [op |-> op, user |-> u, ok |-> ok, val |-> val]
NoQuery == QRes("none", 0, FALSE, <<>>)

RECURSIVE SumOf(_, _)
SumOf(rows, col) ==
    IF rows = <<>> THEN 0 ELSE Head(rows)[col].n + SumOf(Tail(rows), col)

\* AvgOf, if the mean were taken over the days: the average daily total.
AvgOf_PerDay(rows, col) ==
    [sum |-> SumOf(rows, col),
     count |-> Cardinality({rows[i].analyzed_at \div HoursPerDay : i \in 1..Len(rows)})]

\* AVG(col): the sum of the column over the count of the rows.
AvgOf(rows, col) == [sum |-> SumOf(rows, col), count |-> Len(rows)]

DatesOf(rows) == {DateOf(rows[i].analyzed_at) : i \in 1..Len(rows)}
MinOf(S) == CHOOSE x \in S : \A y \in S : x <= y
MaxOf(S) == CHOOSE x \in S : \A y \in S : x >= y

\* The orders in which a SELECT may return rows under ORDER BY col DESC:
\* rows of equal col come in any order.
Bijections(n) == {f \in [1..n -> 1..n] : \A i, j \in 1..n : f[i] = f[j] => i = j}
OrdersDesc(rows, col) ==
    {[i \in 1..Len(rows) |-> rows[f[i]]] : f \in
        {g \in Bijections(Len(rows)) :
            \A i, j \in 1..Len(rows) : i < j => rows[g[i]][col] >= rows[g[j]][col]}}

\* LIMIT n
Limit(rows, n) == SubSeq(rows, 1, IF Len(rows) < n THEN Len(rows) ELSE n)

\* HistoryMatch, if the WHERE clause had no cutoff.
HistoryMatch_NoCutoff(st, u, days) ==
    SelectSeq(st, LAMBDA r : r.user_id = u)

\* get_user_history: the rows the WHERE clause selects.
HistoryMatch(st, u, days) ==
    SelectSeq(st, LAMBDA r : r.user_id = u /\ r.analyzed_at >= now - HoursPerDay * days)

\* get_user_history: the lists the query may return.
HistoryResults(st, u, days, limit) ==
    {Limit(s, limit) : s \in OrdersDesc(HistoryMatch(st, u, days), "analyzed_at")}

\* DailyMatch, if the WHERE clause did not name the user.
DailyMatch_AnyUser(st, u, d) ==
    SelectSeq(st, LAMBDA r : DateOf(r.analyzed_at) = d)

\* get_daily_summary: the rows the WHERE clause selects.
DailyMatch(st, u, d) ==
    SelectSeq(st, LAMBDA r : r.user_id = u /\ DateOf(r.analyzed_at) = d)

\* get_daily_summary: the one group of the GROUP BY, None when it is empty.
DailySummary(st, u, d) ==
    LET rows == DailyMatch(st, u, d) IN
    IF rows = <<>> THEN QRes("daily", u, FALSE, <<>>)
    ELSE QRes("daily", u, TRUE,
              [date |-> d, meal_count |-> Len(rows),
               total_calories |-> SumOf(rows, "calories"),
               total_protein_g |-> SumOf(rows, "protein_g"),
               total_carbs_g |-> SumOf(rows, "carbs_g"),
               total_fats_g |-> SumOf(rows, "fats_g"),
               total_fiber_g |-> SumOf(rows, "fiber_g")])

\* Groups of GROUP BY food_name with their counts.
FoodCount(rows, f) == Len(SelectSeq(rows, LAMBDA r : r.food_name = f))
FoodGroups(rows) ==
    LET names == {rows[i].food_name : i \in 1..Len(rows)}
        order == CHOOSE q \in [1..Cardinality(names) -> names] :
                     \A i, j \in 1..Cardinality(names) : q[i] = q[j] => i = j
    IN [i \in 1..Cardinality(names) |->
          [food_name |-> order[i], count |-> FoodCount(rows, order[i])]]

\* ORDER BY count DESC LIMIT n over the groups: every order the statement
\* allows among groups of equal count.
TopFoods(rows, n) == {Limit(s, n) : s \in OrdersDesc(FoodGroups(rows), "count")}

\* get_weekly_stats: the Monday of the current week and the rows selected.
StartOfWeek == DateOf(now) - Weekday(DateOf(now))
WeeklyMatch(st, u) ==
    SelectSeq(st, LAMBDA r : r.user_id = u /\ DateOf(r.analyzed_at) >= StartOfWeek)

\* get_weekly_stats: the values the method may return.
WeeklyResults(st, u) ==
    LET rows == WeeklyMatch(st, u) IN
    IF rows = <<>> THEN {QRes("weekly", u, FALSE, <<>>)}
    ELSE {QRes("weekly", u, TRUE,
               [total_analyses |-> Len(rows),
                avg_calories |-> AvgOf(rows, "calories"),
                avg_protein |-> AvgOf(rows, "protein_g"),
                avg_carbs |-> AvgOf(rows, "carbs_g"),
                avg_fats |-> AvgOf(rows, "fats_g"),
                avg_fiber |-> AvgOf(rows, "fiber_g"),
                start_date |-> MinOf(DatesOf(rows)),
                end_date |-> MaxOf(DatesOf(rows)),
                most_common_food |-> top[1].food_name]) : top \in TopFoods(rows, 1)}

\* get_all_time_stats: the values the method may return.
AllTimeMatch(st, u) == SelectSeq(st, LAMBDA r : r.user_id = u)
AllTimeResults(st, u) ==
    LET rows == AllTimeMatch(st, u) IN
    IF rows = <<>> THEN {QRes("alltime", u, FALSE, <<>>)}
    ELSE {QRes("alltime", u, TRUE,
               [total_analyses |-> Len(rows),
                avg_calories |-> AvgOf(rows, "calories"),
                avg_protein |-> AvgOf(rows, "protein_g"),
                avg_carbs |-> AvgOf(rows, "carbs_g"),
                avg_fats |-> AvgOf(rows, "fats_g"),
                first_analysis |-> MinOf(DatesOf(rows)),
                days_tracked |-> Cardinality(DatesOf(rows)),
                top_foods |-> top]) : top \in TopFoods(rows, 3)}

\* The value a query method returns from its except clause: [] from
\* get_user_history, None from the others.
FailedQuery(op, u) == QRes(op, u, op = "history", <<>>)

(***************************************************************************)
(* bot.py: the commands                                                    *)
(***************************************************************************)
MaxDays == 30

\* cmd_history: int(parts[1]) clamped to 1..30; 1 when the argument is
\* missing or not a number.
ParseDays(a) ==
    IF a.t # "num" THEN 1
    ELSE IF a.n < 1 THEN 1
    ELSE IF a.n > MaxDays THEN MaxDays
    ELSE a.n

\* cmd_today: datetime.now().strftime('%Y-%m-%d'), the date of the server's
\* local time.
LocalToday == DateOf(now + tz)

\* "if not history", "if not summary_data", "if not stats_data": an empty
\* list and None take the no-data branch.
IsEmpty(res) == IF res.op = "history" THEN res.val = <<>> ELSE ~res.ok

\* The text the try block of a command answers with.
CmdAnswer(res) ==
    IF IsEmpty(res) THEN [kind |-> "no_data", val |-> <<>>]
    ELSE [kind |-> "data", val |-> res.val]

\* The text the except clause of a command answers with.
CmdErrorAnswer == [kind |-> "unable_to_load", val |-> <<>>]

\* The answers a command delivers: message.answer works, raises once (the
\* except clause answers instead), or raises both times.
Delivered(res, deliver) ==
    CASE deliver = "ok" -> <<CmdAnswer(res)>>
      [] deliver = "fail_once" -> <<CmdErrorAnswer>>
      [] OTHER -> <<>>

DeliverOutcomes == {"ok", "fail_once", "fail_twice"}

Cmd(name, u, arg, at, res, lg, rs) ==
    [name |-> name, user |-> u, arg |-> arg, at |-> at, res |-> res,
     log |-> lg, replies |-> rs]
NoCmd == Cmd("none", 0, 0, 0, NoQuery, {}, <<>>)

\* Handled, if an exception of the store reached the handler's except clause.
Handled_Propagate(name, u, arg, res, failed, deliver) ==
    /\ qres' = res
    /\ cmd' = Cmd(name, u, arg, now, res,
                  (IF failed THEN {"Failed to get"} ELSE {})
                     \cup (IF deliver = "ok" THEN {} ELSE {"Error getting: answer failed"})
                     \cup (IF failed THEN {"Error getting: query failed"} ELSE {}),
                  Delivered(res, IF failed /\ deliver = "ok" THEN "fail_once" ELSE deliver))
    /\ UNCHANGED <<pc, user, content, result, requests, replies, log, appends,
                   inserted, raised, writer, store, seq, now, tz>>

\* A command handler from the value res its query returned to its last
\* answer; failed: the query raised inside the store method, which logged it.
\* The except clause of the handler logs the exception it caught.
Handled(name, u, arg, res, failed, deliver) ==
    /\ qres' = res
    /\ cmd' = Cmd(name, u, arg, now, res,
                  (IF failed THEN {"Failed to get"} ELSE {})
                     \cup (IF deliver = "ok" THEN {} ELSE {"Error getting: answer failed"}),
                  Delivered(res, deliver))
    /\ UNCHANGED <<pc, user, content, result, requests, replies, log, appends,
                   inserted, raised, writer, store, seq, now, tz>>

\* cmd_history with argument a.
CmdHistory(u, a, failed, deliver) ==
    \E res \in (IF failed THEN {FailedQuery("history", u)}
                ELSE {QRes("history", u, TRUE, rows) :
                        rows \in HistoryResults(store, u, ParseDays(a), DefaultLimit)}) :
        Handled("history", u, ParseDays(a), res, failed, deliver)

\* cmd_today
CmdToday(u, failed, deliver) ==
    Handled("today", u, LocalToday,
            IF failed THEN FailedQuery("daily", u)
            ELSE DailySummary(store, u, LocalToday),
            failed, deliver)

\* cmd_week
CmdWeek(u, failed, deliver) ==
    \E res \in (IF failed THEN {FailedQuery("weekly", u)}
                ELSE WeeklyResults(store, u)) :
        Handled("week", u, 0, res, failed, deliver)

\* cmd_stats
CmdStats(u, failed, deliver) ==
    \E res \in (IF failed THEN {FailedQuery("alltime", u)}
                ELSE AllTimeResults(store, u)) :
        Handled("stats", u, 0, res, failed, deliver)

(***************************************************************************)
(* bot.py: handle_photo                                                    *)
(***************************************************************************)
Reply(kind, res) == [kind |-> kind, of |-> res]

\* The branch handle_photo takes on the value analyze_food_image returned:
\* the text it answers with.
AnswerKind(res) == IF res.tag = "info" THEN "nutrition" ELSE "analysis_error"

\* Variant: the result is saved whatever its type.
AfterAnswer_SaveAlways(res) == "save"

\* The position after the answer was delivered: only a NutritionInfo is saved.
AfterAnswer(res) == IF res.tag = "info" THEN "save" ELSE "done"

Init ==
    /\ pc = [t \in Tasks |-> "idle"]
    /\ user = [t \in Tasks |-> 0]
    /\ content = [t \in Tasks |-> NoContent]
    /\ result = [t \in Tasks |-> NoResult]
    /\ requests = [t \in Tasks |-> 0]
    /\ replies = [t \in Tasks |-> <<>>]
    /\ log = [t \in Tasks |-> {}]
    /\ appends = [t \in Tasks |-> 0]
    /\ inserted = [t \in Tasks |-> NoRow]
    /\ raised = [t \in Tasks |-> ""]
    /\ writer = 0
    /\ store = <<>>
    /\ seq = 0
    /\ now = StartHour
    /\ qres = NoQuery
    /\ cmd = NoCmd
    /\ tz = 0

\* A photo message of user u is dispatched to handle_photo.
StartPhoto(t, u) ==
    /\ pc[t] = "idle"
    /\ pc' = [pc EXCEPT ![t] = "download"]
    /\ user' = [user EXCEPT ![t] = u]
    /\ UNCHANGED <<content, result, requests, replies, log, appends, inserted,
                   raised, writer, store, seq, now, qres, cmd, tz>>

\* send_chat_action, get_file and download_file succeed; analyze_food_image
\* encodes the image and issues its request.
Download(t) ==
    /\ pc[t] = "download"
    /\ pc' = [pc EXCEPT ![t] = "analyze"]
    /\ requests' = [requests EXCEPT ![t] = @ + 1]
    /\ UNCHANGED <<user, content, result, replies, log, appends, inserted,
                   raised, writer, store, seq, now, qres, cmd, tz>>

\* send_chat_action, get_file or download_file raises.
DownloadFail(t) ==
    /\ pc[t] = "download"
    /\ pc' = [pc EXCEPT ![t] = "except"]
    /\ log' = [log EXCEPT ![t] = @ \cup {"Error handling photo"}]
    /\ UNCHANGED <<user, content, result, requests, replies, appends, inserted,
                   raised, writer, store, seq, now, qres, cmd, tz>>

\* The service answers with a content c of C; analyze_food_image parses,
\* validates and returns.
ServiceRespond(t, C) ==
    /\ pc[t] = "analyze"
    /\ \E c \in C :
           /\ content' = [content EXCEPT ![t] = c]
           /\ result' = [result EXCEPT ![t] = AnalyzeResponse(c)]
    /\ pc' = [pc EXCEPT ![t] = "answer"]
    /\ UNCHANGED <<user, requests, replies, log, appends, inserted, raised, writer,
                   store, seq, now, qres, cmd, tz>>

\* Variant: the adapter retries a failed call.
ServiceRaise_Retry(t, e) ==
    /\ pc[t] = "analyze"
    /\ requests[t] < 3
    /\ requests' = [requests EXCEPT ![t] = @ + 1]
    /\ raised' = [raised EXCEPT ![t] = e]
    /\ UNCHANGED <<pc, user, content, result, replies, log, appends, inserted,
                   writer, store, seq, now, qres, cmd, tz>>

\* Variant: the exception of the outbound call leaves analyze_food_image.
ServiceRaise_Propagate(t, e) ==
    /\ pc[t] = "analyze"
    /\ raised' = [raised EXCEPT ![t] = e]
    /\ pc' = [pc EXCEPT ![t] = "except"]
    /\ log' = [log EXCEPT ![t] = @ \cup {"Error handling photo"}]
    /\ UNCHANGED <<user, content, result, requests, replies, appends, inserted,
                   writer, store, seq, now, qres, cmd, tz>>

\* The outbound call raises an exception with message e; the outer handler
\* of analyze_food_image returns an ErrorResponse.
ServiceRaise(t, e) ==
    /\ pc[t] = "analyze"
    /\ result' = [result EXCEPT ![t] = ApiError(e)]
    /\ pc' = [pc EXCEPT ![t] = "answer"]
    /\ raised' = [raised EXCEPT ![t] = e]
    /\ log' = [log EXCEPT ![t] = @ \cup {"OpenAI API error"}]
    /\ UNCHANGED <<user, content, requests, replies, appends, inserted, writer,
                   store, seq, now, qres, cmd, tz>>

\* The task is cancelled while it awaits the service: CancelledError is not
\* an Exception and passes through both except clauses.
Cancel(t) ==
    /\ pc[t] = "analyze"
    /\ pc' = [pc EXCEPT ![t] = "cancelled"]
    /\ UNCHANGED <<user, content, result, requests, replies, log, appends,
                   inserted, raised, writer, store, seq, now, qres, cmd, tz>>

\* message.answer of the result branch is delivered.
Answer(t) ==
    /\ pc[t] = "answer"
    /\ replies' = [replies EXCEPT
                     ![t] = Append(@, Reply(AnswerKind(result[t]), result[t]))]
    /\ pc' = [pc EXCEPT ![t] = AfterAnswer(result[t])]
    /\ UNCHANGED <<user, content, result, requests, log, appends, inserted,
                   raised, writer, store, seq, now, qres, cmd, tz>>

\* message.answer of the result branch raises: the outer except of
\* handle_photo takes over.
AnswerFail(t) ==
    /\ pc[t] = "answer"
    /\ pc' = [pc EXCEPT ![t] = "except"]
    /\ log' = [log EXCEPT ![t] = @ \cup {"Error handling photo"}]
    /\ UNCHANGED <<user, content, result, requests, replies, appends, inserted,
                   raised, writer, store, seq, now, qres, cmd, tz>>

\* The outer except of handle_photo answers with the generic text.
ExceptAnswer(t) ==
    /\ pc[t] = "except"
    /\ replies' = [replies EXCEPT ![t] = Append(@, Reply("generic_error", NoResult))]
    /\ pc' = [pc EXCEPT ![t] = "done"]
    /\ UNCHANGED <<user, content, result, requests, log, appends, inserted,
                   raised, writer, store, seq, now, qres, cmd, tz>>

\* The answer inside the outer except raises too: the exception leaves
\* handle_photo.
ExceptAnswerFail(t) ==
    /\ pc[t] = "except"
    /\ pc' = [pc EXCEPT ![t] = "raised"]
    /\ UNCHANGED <<user, content, result, requests, replies, log, appends,
                   inserted, raised, writer, store, seq, now, qres, cmd, tz>>

\* save_analysis: connect and INSERT. The statement takes the write lock and
\* checks the constraints of the table.
SaveInsert(t) ==
    /\ pc[t] = "save"
    /\ writer = 0
    /\ NotNullOK(InsertedRow(user[t], UserName(user[t]), result[t].info,
                             PhotoOf(user[t])))
    /\ inserted' = [inserted EXCEPT
                     ![t] = InsertedRow(user[t], UserName(user[t]),
                                        result[t].info, PhotoOf(user[t]))]
    /\ writer' = t
    /\ appends' = [appends EXCEPT ![t] = @ + 1]
    /\ pc' = [pc EXCEPT ![t] = "commit"]
    /\ UNCHANGED <<user, content, result, requests, replies, log, raised,
                   store, seq, now, qres, cmd, tz>>

\* Variant: the failure of the INSERT reaches the outer except of handle_photo.
SaveInsertFail_Surface(t) ==
    /\ pc[t] = "save"
    /\ appends' = [appends EXCEPT ![t] = @ + 1]
    /\ log' = [log EXCEPT ![t] = @ \cup {"Failed to save analysis",
                                         "Error handling photo"}]
    /\ pc' = [pc EXCEPT ![t] = "except"]
    /\ UNCHANGED <<user, content, result, requests, replies, inserted, raised,
                   writer, store, seq, now, qres, cmd, tz>>

\* save_analysis: the INSERT raises (a constraint fails, the database is
\* locked or cannot be opened, the table is missing); the except clause logs
\* and returns False, handle_photo logs and returns.
SaveInsertFail(t) ==
    /\ pc[t] = "save"
    /\ appends' = [appends EXCEPT ![t] = @ + 1]
    /\ log' = [log EXCEPT ![t] = @ \cup {"Failed to save analysis",
                                         "Saved analysis to database"}]
    /\ pc' = [pc EXCEPT ![t] = "done"]
    /\ UNCHANGED <<user, content, result, requests, replies, inserted, raised, writer,
                   store, seq, now, qres, cmd, tz>>

\* save_analysis: commit; the row is durable, save_analysis returns True.
SaveCommit(t) ==
    /\ pc[t] = "commit"
    /\ writer = t
    /\ store' = InsertRow(store, inserted[t])
    /\ seq' = inserted[t].id
    /\ writer' = 0
    /\ log' = [log EXCEPT ![t] = @ \cup {"Saved analysis to database"}]
    /\ pc' = [pc EXCEPT ![t] = "done"]
    /\ UNCHANGED <<user, content, result, requests, replies, appends, inserted,
                   raised, now, qres, cmd, tz>>

\* Variant: the failure of the commit reaches the outer except of handle_photo.
SaveCommitFail_Surface(t) ==
    /\ pc[t] = "commit"
    /\ writer = t
    /\ writer' = 0
    /\ inserted' = [inserted EXCEPT ![t] = NoRow]
    /\ log' = [log EXCEPT ![t] = @ \cup {"Failed to save analysis",
                                         "Error handling photo"}]
    /\ pc' = [pc EXCEPT ![t] = "except"]
    /\ UNCHANGED <<user, content, result, requests, replies, appends, raised,
                   store, seq, now, qres, cmd, tz>>

\* save_analysis: the commit raises; the connection closes and the
\* transaction is rolled back.
SaveCommitFail(t) ==
    /\ pc[t] = "commit"
    /\ writer = t
    /\ writer' = 0
    /\ inserted' = [inserted EXCEPT ![t] = NoRow]
    /\ log' = [log EXCEPT ![t] = @ \cup {"Failed to save analysis",
                                         "Saved analysis to database"}]
    /\ pc' = [pc EXCEPT ![t] = "done"]
    /\ UNCHANGED <<user, content, result, requests, replies, appends, raised,
                   store, seq, now, qres, cmd, tz>>

\* The clock advances by one hour.
Tick ==
    /\ now < MaxClock
    /\ now' = now + 1
    /\ UNCHANGED <<pc, user, content, result, requests, replies, log, appends,
                   inserted, raised, writer, store, seq, qres, cmd, tz>>

Next ==
    \/ \E t \in Tasks, u \in Users : StartPhoto(t, u)
    \/ \E t \in Tasks : Download(t)
    \/ \E t \in Tasks : DownloadFail(t)
    \/ \E t \in Tasks : ServiceRespond(t, HandlerContents)
    \/ \E t \in Tasks, e \in HandlerErrors : ServiceRaise(t, e)
    \/ \E t \in Tasks : Cancel(t)
    \/ \E t \in Tasks : Answer(t)
    \/ \E t \in Tasks : AnswerFail(t)
    \/ \E t \in Tasks : ExceptAnswer(t)
    \/ \E t \in Tasks : ExceptAnswerFail(t)
    \/ \E t \in Tasks : SaveInsert(t)
    \/ \E t \in Tasks : SaveInsertFail(t)
    \/ \E t \in Tasks : SaveCommit(t)
    \/ \E t \in Tasks : SaveCommitFail(t)

Spec == Init /\ [][Next]_vars

(***************************************************************************)
(* The store on its own: save_analysis and the queries, called one at a    *)
(* time                                                                    *)
(***************************************************************************)
\* The NutritionInfo values handed to save_analysis.
StoreInfos ==
    { NutritionInfo(Obj(GoodFields)),
      NutritionInfo(Obj([GoodFields EXCEPT !.food_name = Str("Banana"),
                                           !.calories = Num(100)])),
      NutritionInfo(Obj([GoodFields EXCEPT !.calories = NaN])) }

\* save_analysis returns True: INSERT and commit.
Save(u, info) ==
    /\ NotNullOK(InsertedRow(u, UserName(u), info, PhotoOf(u)))
    /\ store' = InsertRow(store, InsertedRow(u, UserName(u), info, PhotoOf(u)))
    /\ seq' = NewRowId
    /\ qres' = QRes("save", u, TRUE, <<>>)
    /\ UNCHANGED <<pc, user, content, result, requests, replies, log, appends,
                   inserted, raised, writer, now, cmd, tz>>

\* save_analysis returns False: the INSERT or the commit raised.
SaveFail(u, info) ==
    /\ qres' = QRes("save", u, FALSE, <<>>)
    /\ UNCHANGED <<pc, user, content, result, requests, replies, log, appends,
                   inserted, raised, writer, store, seq, now, cmd, tz>>

GetUserHistory(u, days, limit) ==
    /\ \E rows \in HistoryResults(store, u, days, limit) :
           qres' = QRes("history", u, TRUE, rows)
    /\ UNCHANGED <<pc, user, content, result, requests, replies, log, appends,
                   inserted, raised, writer, store, seq, now, cmd, tz>>

GetDailySummary(u, d) ==
    /\ qres' = DailySummary(store, u, d)
    /\ UNCHANGED <<pc, user, content, result, requests, replies, log, appends,
                   inserted, raised, writer, store, seq, now, cmd, tz>>

GetWeeklyStats(u) ==
    /\ qres' \in WeeklyResults(store, u)
    /\ UNCHANGED <<pc, user, content, result, requests, replies, log, appends,
                   inserted, raised, writer, store, seq, now, cmd, tz>>

GetAllTimeStats(u) ==
    /\ qres' \in AllTimeResults(store, u)
    /\ UNCHANGED <<pc, user, content, result, requests, replies, log, appends,
                   inserted, raised, writer, store, seq, now, cmd, tz>>

\* A query raises inside the method: [] from get_user_history, None from
\* the others.
QueryFail(op, u) ==
    /\ qres' = FailedQuery(op, u)
    /\ UNCHANGED <<pc, user, content, result, requests, replies, log, appends,
                   inserted, raised, writer, store, seq, now, cmd, tz>>

NextStore ==
    \/ \E u \in Users, info \in StoreInfos : Len(store) < MaxRows /\ Save(u, info)
    \/ \E u \in Users, info \in StoreInfos : SaveFail(u, info)
    \/ \E u \in Users, days \in {1, 2}, limit \in {1, DefaultLimit} :
           GetUserHistory(u, days, limit)
    \/ \E u \in Users, d \in DateOf(StartHour)..DateOf(MaxClock) : GetDailySummary(u, d)
    \/ \E u \in Users : GetWeeklyStats(u)
    \/ \E u \in Users : GetAllTimeStats(u)
    \/ \E u \in Users, op \in {"history", "daily", "weekly", "alltime"} : QueryFail(op, u)
    \/ Tick

SpecStore == Init /\ [][NextStore]_vars

(***************************************************************************)
(* The commands over the store, on a server in any time zone               *)
(***************************************************************************)
TzOffsets == {-5, 0, 3}

\* Rows the store holds at most while the commands are explored.
CmdRows == 1

\* Hours the clock advances at most while the commands are explored.
CmdHours == 2

InitCmd ==
    /\ pc = [t \in Tasks |-> "idle"]
    /\ user = [t \in Tasks |-> 0]
    /\ content = [t \in Tasks |-> NoContent]
    /\ result = [t \in Tasks |-> NoResult]
    /\ requests = [t \in Tasks |-> 0]
    /\ replies = [t \in Tasks |-> <<>>]
    /\ log = [t \in Tasks |-> {}]
    /\ appends = [t \in Tasks |-> 0]
    /\ inserted = [t \in Tasks |-> NoRow]
    /\ raised = [t \in Tasks |-> ""]
    /\ writer = 0
    /\ store = <<>>
    /\ seq = 0
    /\ now = StartHour
    /\ qres = NoQuery
    /\ cmd = NoCmd
    /\ tz \in TzOffsets

\* The users who have saved meals when the commands arrive; the other user
\* has none.
CmdSavers == {1}

\* The arguments of /history.
HistoryArgs == {Absent, Num(2), Num(45), Str("abc")}

NextCmd ==
    \/ \E u \in CmdSavers : Len(store) < CmdRows /\ Save(u, NutritionInfo(Obj(GoodFields)))
    \/ \E u \in Users, a \in HistoryArgs, failed \in BOOLEAN, d \in DeliverOutcomes :
           CmdHistory(u, a, failed, d)
    \/ \E u \in Users, failed \in BOOLEAN, d \in DeliverOutcomes : CmdToday(u, failed, d)
    \/ \E u \in Users, failed \in BOOLEAN, d \in DeliverOutcomes : CmdWeek(u, failed, d)
    \/ \E u \in Users, failed \in BOOLEAN, d \in DeliverOutcomes : CmdStats(u, failed, d)
    \/ now < StartHour + CmdHours /\ Tick

SpecCmd == InitCmd /\ [][NextCmd]_vars

(***************************************************************************)
(* The adapter on its own: one handler, every service output               *)
(***************************************************************************)
NextParse ==
    \/ \E u \in Users : StartPhoto(1, u)
    \/ Download(1)
    \/ ServiceRespond(1, ParseContents)
    \/ \E e \in ServiceErrors : ServiceRaise(1, e)

SpecParse == Init /\ [][NextParse]_vars

(***************************************************************************)
(* Properties                                                              *)
(***************************************************************************)
\* The error kind of a returned value, read off the message the code builds.
Kind(res) ==
    IF res.tag # "error" THEN "none"
    ELSE IF res.error = <<ParseFailedText>> THEN "MalformedResponse"
    ELSE IF res.error = <<InvalidFormatText>> THEN "SchemaViolation"
    ELSE IF Len(res.error) = 2 /\ res.error[1] = FailedPrefix THEN "ServiceFailure"
    ELSE "NotFood"

\* The validity of a field as the specification states it.
ValidField(k, v) ==
    CASE k = "food_name" -> v.t = "str" /\ v.s # ""
      [] k = "serving_size" -> v.t = "str" /\ v.s # ""
      [] k = "confidence" -> v.t = "str" /\ v.s \in {"high", "medium", "low"}
      [] OTHER -> v.t = "num" /\ v.n >= 0

SchemaValid(o) == \A k \in Required : k \in DOMAIN o /\ ValidField(k, o[k])
NoValidNutritionField(o) == \A k \in Required \cap DOMAIN o : ~ValidField(k, o[k])

\* C1: every committed row is the row of a task whose analysis returned a
\* NutritionInfo built from a JSON object that passed the model's validation,
\* with every macro column a number and never NULL; a task whose analysis
\* did not return a NutritionInfo (any error outcome, a cancellation, no
\* analysis at all) has executed no INSERT and owns no row.
C1_StoreOnlyFromValidatedRecords ==
    /\ \A i \in 1..Len(store) : \E t \in Tasks :
          /\ result[t].tag = "info"
          /\ content[t].t = "obj"
          /\ ModelValidates(content[t].o)
          /\ result[t] = AnalyzeResponse(content[t])
          /\ inserted[t] = store[i]
          /\ store[i] = Row(store[i].id, user[t], UserName(user[t]), result[t].info,
                            store[i].analyzed_at, PhotoOf(user[t]))
          /\ \A k \in FloatFields : store[i][k].t = "num"
          /\ \A k \in StrFields : store[i][k].t = "str"
    /\ \A t \in Tasks :
          result[t].tag # "info" => appends[t] = 0 /\ inserted[t] = NoRow

C1_Witness ==
    \E t1, t2 \in Tasks :
        /\ pc[t1] = "done" /\ Kind(result[t1]) = "SchemaViolation"
        /\ pc[t2] = "done" /\ result[t2].tag = "info"
        /\ Len(store) = 1

\* C2: a step of the store keeps every committed row where it was, with
\* every column unchanged, and a step that returns from a query leaves the
\* table and the rowid sequence as they were.
C2_AppendOnly ==
    [][ /\ \A i \in 1..Len(store) : Len(store') >= i /\ store'[i] = store[i]
        /\ qres'.op \in {"history", "daily", "weekly", "alltime"}
              => store' = store /\ seq' = seq ]_vars

C2_Witness ==
    /\ Len(store) >= 2
    /\ store[1].user_id = store[2].user_id
    /\ store[1].food_name = store[2].food_name
    /\ qres.op = "weekly" /\ qres.ok

\* C3: the committed rows carry strictly increasing ids in commit order, and
\* every save_analysis that committed owns exactly one row of the table:
\* there are as many rows as committed calls.
Committed(t) == pc[t] = "done" /\ inserted[t] # NoRow

C3_EachAppendOneNewRow ==
    /\ \A i, j \in 1..Len(store) : i < j => store[i].id < store[j].id
    /\ \A t \in Tasks :
          Committed(t) => Cardinality({i \in 1..Len(store) : store[i] = inserted[t]}) = 1
    /\ Len(store) = Cardinality({t \in Tasks : Committed(t)})

C3_Witness ==
    \E i, j \in 1..Len(store) :
        /\ i < j
        /\ [store[i] EXCEPT !.id = 0] = [store[j] EXCEPT !.id = 0]
        /\ store[i].id < store[j].id

\* C4 (as claimed): every service output that is not a JSON object, non-JSON
\* text or JSON of another type, gives the MalformedResponse outcome.
C4_NonObjectIsMalformed ==
    \A t \in Tasks :
        pc[t] = "answer" /\ content[t].t \in {"text", "null", "num", "str", "arr"}
            => Kind(result[t]) = "MalformedResponse"

\* C5 (as claimed): a JSON object with an error field and no valid nutrition
\* field gives the NotFood outcome whose message is the value of the field.
C5_ErrorFieldIsNotFood ==
    \A t \in Tasks :
        /\ pc[t] = "answer" /\ content[t].t = "obj"
        /\ "error" \in DOMAIN content[t].o
        /\ NoValidNutritionField(content[t].o)
        => /\ Kind(result[t]) = "NotFood"
           /\ result[t].error = <<content[t].o["error"].s>>

\* C6 (as claimed): a JSON object without an error field in which a required
\* field is missing or invalid gives the SchemaViolation outcome.
C6_InvalidIsSchemaViolation ==
    \A t \in Tasks :
        /\ pc[t] = "answer" /\ content[t].t = "obj"
        /\ "error" \notin DOMAIN content[t].o
        /\ ~SchemaValid(content[t].o)
        => Kind(result[t]) = "SchemaViolation"

\* C7 (as claimed): a JSON object whose seven required fields are present and
\* valid gives a NutritionInfo with the same seven values, whatever other
\* keys the object has.
C7_ValidGivesRecord ==
    \A t \in Tasks :
        /\ pc[t] = "answer" /\ content[t].t = "obj"
        /\ SchemaValid(content[t].o)
        => /\ result[t].tag = "info"
           /\ \A k \in Required : result[t].info[k] = content[t].o[k]

\* C8: a handler never issues more than one request, and once its analysis
\* was invoked (it awaits the service, was cancelled, or holds the returned
\* value) it has issued exactly one, whatever the outcome.
C8_OneRequestPerAnalyze ==
    \A t \in Tasks :
        /\ requests[t] <= 1
        /\ (pc[t] \in {"analyze", "cancelled"} \/ result[t].tag # "none"
               => requests[t] = 1)

C8_Witness ==
    \E t \in Tasks :
        pc[t] = "done" /\ Kind(result[t]) = "ServiceFailure" /\ requests[t] = 1

SaveFailed(t) == pc[t] = "done" /\ appends[t] >= 1 /\ inserted[t] = NoRow

C10_SaveFailureKeepsAnswer ==
    /\ [](\A t \in Tasks :
            SaveFailed(t)
                => /\ result[t].tag = "info"
                   /\ replies[t] = <<Reply("nutrition", result[t])>>
                   /\ "Failed to save analysis" \in log[t]
                   /\ appends[t] = 1)
    /\ [][\A t \in Tasks :
            pc[t] \in {"save", "commit"} /\ pc'[t] # pc[t] /\ inserted'[t] = NoRow
                => store' = store /\ seq' = seq]_vars

C10_Witness ==
    \E t1, t2 \in Tasks :
        /\ SaveFailed(t1)
        /\ replies[t1] = <<Reply("nutrition", result[t1])>>
        /\ Committed(t2)
        /\ Len(store) = 1

(***************************************************************************)
(* The aggregates over a store filled on several days                      *)
(***************************************************************************)
\* Rows the store holds at most while the aggregates are explored.
AggRows == 3

\* Days the clock advances at most while the aggregates are explored.
AggDays == 2

\* A Sunday evening: day 3 of the epoch.
AggStart == StartHour + 3 * HoursPerDay
AggDates == DateOf(AggStart)..(DateOf(AggStart) + AggDays)

Meal(name, kcal) ==
    NutritionInfo(Obj([GoodFields EXCEPT !.food_name = Str(name), !.calories = Num(kcal)]))

\* The calls of save_analysis: user and record.
AggSaves ==
    { <<1, Meal("Apple", 200)>>, <<1, Meal("Banana", 300)>>, <<1, Meal("Apple", 500)>>,
      <<2, Meal("Apple", 200)>> }

\* A day passes.
NextDay ==
    /\ now + HoursPerDay <= AggStart + HoursPerDay * AggDays
    /\ now' = now + HoursPerDay
    /\ UNCHANGED <<pc, user, content, result, requests, replies, log, appends,
                   inserted, raised, writer, store, seq, qres, cmd, tz>>

InitAgg ==
    /\ pc = [t \in Tasks |-> "idle"]
    /\ user = [t \in Tasks |-> 0]
    /\ content = [t \in Tasks |-> NoContent]
    /\ result = [t \in Tasks |-> NoResult]
    /\ requests = [t \in Tasks |-> 0]
    /\ replies = [t \in Tasks |-> <<>>]
    /\ log = [t \in Tasks |-> {}]
    /\ appends = [t \in Tasks |-> 0]
    /\ inserted = [t \in Tasks |-> NoRow]
    /\ raised = [t \in Tasks |-> ""]
    /\ writer = 0
    /\ store = <<>>
    /\ seq = 0
    /\ now = AggStart
    /\ qres = NoQuery
    /\ cmd = NoCmd
    /\ tz = 0

NextAgg ==
    \/ \E c \in AggSaves : Len(store) < AggRows /\ Save(c[1], c[2])
    \/ \E u \in Users, d \in AggDates : GetDailySummary(u, d)
    \/ \E u \in Users : GetWeeklyStats(u)
    \/ \E u \in Users : GetAllTimeStats(u)
    \/ NextDay

SpecAgg == InitAgg /\ [][NextAgg]_vars

(***************************************************************************)
(* The history over a store filled across more than a day                  *)
(***************************************************************************)
\* Rows the store holds at most while the history is explored.
HistRows == 2

\* Hours the clock advances at most while the history is explored.
HistHours == 25

\* The hours that pass between two calls.
HistSteps == {12, 13}

Pass(h) ==
    /\ now + h <= StartHour + HistHours
    /\ now' = now + h
    /\ UNCHANGED <<pc, user, content, result, requests, replies, log, appends,
                   inserted, raised, writer, store, seq, qres, cmd, tz>>

NextHist ==
    \/ \E u \in Users : Len(store) < HistRows /\ Save(u, NutritionInfo(Obj(GoodFields)))
    \/ \E u \in Users, days \in {1, 2}, limit \in {1, DefaultLimit} :
           GetUserHistory(u, days, limit)
    \/ \E h \in HistSteps : Pass(h)

SpecHist == Init /\ [][NextHist]_vars

(***************************************************************************)
(* C11: a failure of the store inside a read query never reaches the       *)
(* command: the query returns the empty list (history) or None (daily,     *)
(* weekly, all-time), and the command answers with its no-data text, and   *)
(* with nothing else when the delivery works.                              *)
(***************************************************************************)
QueryOf(name) ==
    CASE name = "history" -> "history"
      [] name = "today" -> "daily"
      [] name = "week" -> "weekly"
      [] OTHER -> "alltime"

NoDataAnswer == [kind |-> "no_data", val |-> <<>>]

C11_ReadFailureShowsNoData ==
    "Failed to get" \in cmd.log =>
        /\ cmd.res = QRes(QueryOf(cmd.name), cmd.user, cmd.name = "history", <<>>)
        /\ "Error getting: answer failed" \notin cmd.log => cmd.replies = <<NoDataAnswer>>
        /\ \A i \in 1..Len(cmd.replies) : cmd.replies[i].kind # "data"

C11_Witness ==
    /\ "Failed to get" \in cmd.log
    /\ cmd.name = "today"
    /\ \E i \in 1..Len(store) :
           store[i].user_id = cmd.user /\ DateOf(store[i].analyzed_at) = cmd.arg
    /\ cmd.replies = <<NoDataAnswer>>

(***************************************************************************)
(* C12: the daily summary of user u for date d is None exactly when no row *)
(* of u has date d; otherwise meal_count is the number of rows of u with   *)
(* date d and each total is the sum of the column over exactly those rows. *)
(***************************************************************************)
RECURSIVE SumOver(_, _, _)
SumOver(I, st, col) ==
    IF I = {} THEN 0
    ELSE LET i == CHOOSE x \in I : TRUE IN st[i][col].n + SumOver(I \ {i}, st, col)

RowsOn(u, d) ==
    {i \in 1..Len(store) : store[i].user_id = u /\ DateOf(store[i].analyzed_at) = d}

C12_DailySummaryIsExactSum ==
    [][\A u \in Users, d \in AggDates :
          GetDailySummary(u, d) =>
              /\ qres'.ok <=> RowsOn(u, d) # {}
              /\ qres'.ok =>
                    /\ qres'.val.meal_count = Cardinality(RowsOn(u, d))
                    /\ qres'.val.total_calories = SumOver(RowsOn(u, d), store, "calories")
                    /\ qres'.val.total_protein_g = SumOver(RowsOn(u, d), store, "protein_g")
                    /\ qres'.val.total_carbs_g = SumOver(RowsOn(u, d), store, "carbs_g")
                    /\ qres'.val.total_fats_g = SumOver(RowsOn(u, d), store, "fats_g")
                    /\ qres'.val.total_fiber_g = SumOver(RowsOn(u, d), store, "fiber_g")]_vars

\* Meals of 200 and 500 kcal on one date, and a meal of another user on the
\* same date: two meals, 700 kcal.
C12_Witness ==
    /\ qres.op = "daily" /\ qres.ok /\ qres.user = 1
    /\ qres.val.meal_count = 2
    /\ qres.val.total_calories = 700
    /\ Cardinality(RowsOn(1, qres.val.date)) = 2
    /\ RowsOn(2, qres.val.date) # {}

(***************************************************************************)
(* C13: the weekly statistics of user u are None when u has no row dated   *)
(* on or after the Monday of the current week; otherwise each mean is the  *)
(* sum of the column over those rows divided by their number, rows of the  *)
(* same day counting one each.                                             *)
(***************************************************************************)
Today == DateOf(now)
Monday == CHOOSE m \in (Today - 6)..Today : Weekday(m) = 0
RowsThisWeek(u) ==
    {i \in 1..Len(store) : store[i].user_id = u /\ DateOf(store[i].analyzed_at) >= Monday}
MeanOver(I, col) == [sum |-> SumOver(I, store, col), count |-> Cardinality(I)]

NameRank(f) == IF f = Str("Apple") THEN 1 ELSE 2

CountOf(I, f) == Cardinality({i \in I : store[i].food_name = f})
NamesOf(I) == {store[i].food_name : i \in I}
Before(I, f, g) ==
    \/ CountOf(I, f) > CountOf(I, g)
    \/ CountOf(I, f) = CountOf(I, g) /\ NameRank(f) < NameRank(g)
RowsOf(u) == {i \in 1..Len(store) : store[i].user_id = u}

C14_TieBreakByName ==
    [][\A u \in Users :
          /\ GetWeeklyStats(u) /\ qres'.ok =>
                 \A g \in NamesOf(RowsThisWeek(u)) \ {qres'.val.most_common_food} :
                     Before(RowsThisWeek(u), qres'.val.most_common_food, g)
          /\ GetAllTimeStats(u) /\ qres'.ok =>
                 \A i, j \in 1..Len(qres'.val.top_foods) :
                     i < j => Before(RowsOf(u), qres'.val.top_foods[i].food_name,
                                     qres'.val.top_foods[j].food_name)]_vars

(***************************************************************************)
(* C15: the history of user u over days days holds only rows of u whose    *)
(* analyzed_at is at most days * 24 hours before the call, the most recent *)
(* first, and of these the most recent ones up to the limit.               *)
(***************************************************************************)
InWindow(u, days) ==
    {i \in 1..Len(store) : store[i].user_id = u /\ now - store[i].analyzed_at <= 24 * days}

IsHistory(rows, u, days, limit) ==
    /\ Len(rows) = IF Cardinality(InWindow(u, days)) < limit
                   THEN Cardinality(InWindow(u, days)) ELSE limit
    /\ \A k \in 1..Len(rows) : \E i \in InWindow(u, days) : rows[k] = store[i]
    /\ \A k, l \in 1..Len(rows) :
           k < l => rows[k].id # rows[l].id /\ rows[k].analyzed_at >= rows[l].analyzed_at
    /\ \A i \in InWindow(u, days) :
           (\A k \in 1..Len(rows) : rows[k] # store[i]) =>
               \A k \in 1..Len(rows) : rows[k].analyzed_at >= store[i].analyzed_at

C15_HistoryIsRecentRowsOfUser ==
    [][\A u \in Users, days \in {1, 2}, limit \in {1, 20} :
          qres'.op = "history" /\ qres'.user = u /\ GetUserHistory(u, days, limit) =>
              IsHistory(qres'.val, u, days, limit)]_vars

\* The user has a row of 25 hours ago and a row of 12 hours ago, and the
\* history holds the second only.
C15_Witness ==
    /\ qres.op = "history"
    /\ Len(qres.val) = 1
    /\ qres.val[1].user_id = qres.user
    /\ now - qres.val[1].analyzed_at = 12
    /\ \E i \in 1..Len(store) :
           store[i].user_id = qres.user /\ now - store[i].analyzed_at = 25

(***************************************************************************)
(* C16: a handler whose analysis returned a NutritionInfo has called       *)
(* save_analysis exactly once for it when it ends, whether or not the      *)
(* answer could be delivered.                                              *)
(***************************************************************************)
Ended(t) == pc[t] \in {"done", "raised"}

C16_SuccessIsAppendedOnce ==
    \A t \in Tasks : Ended(t) /\ result[t].tag = "info" => appends[t] = 1

(***************************************************************************)
(* C17: the date /today passes to get_daily_summary is the date the store  *)
(* gives a row written at that moment, whatever the offset of the server's *)
(* local time from UTC.                                                    *)
(***************************************************************************)
C17_TodayUsesStoreDate ==
    cmd.name = "today" => cmd.arg = DateOf(cmd.at)

(***************************************************************************)
(* C18: a handler that ended without a failed delivery has answered        *)
(* exactly once: with the nutrition text when the analysis returned a      *)
(* NutritionInfo (saved or not), with the analysis error text when it      *)
(* returned an ErrorResponse, with the generic text when the download      *)
(* raised; and no handler answers twice.                                   *)
(***************************************************************************)
\* message.answer raised in the handler: in the result branch (logged by the
\* outer except after the analysis returned) or in the outer except.
DeliveryFailed(t) ==
    \/ pc[t] = "raised"
    \/ "Error handling photo" \in log[t] /\ result[t] # NoResult

C18_ExactlyOneReply ==
    \A t \in Tasks :
        /\ Len(replies[t]) <= 1
        /\ pc[t] = "done" /\ ~DeliveryFailed(t) =>
               replies[t] = <<IF result[t] = NoResult THEN Reply("generic_error", NoResult)
                              ELSE IF result[t].tag = "info" THEN Reply("nutrition", result[t])
                              ELSE Reply("analysis_error", result[t])>>

\* One handler answered the nutrition text although its save failed, the
\* other the generic text after its download failed.
C18_Witness ==
    \E t1, t2 \in Tasks :
        /\ SaveFailed(t1) /\ ~DeliveryFailed(t1)
        /\ replies[t1] = <<Reply("nutrition", result[t1])>>
        /\ pc[t2] = "done" /\ result[t2] = NoResult
        /\ replies[t2] = <<Reply("generic_error", NoResult)>>

====
